---- MODULE Spec2Model ----
(***************************************************************************)
(* Durable SMS dispatch core: the sms_queue table driven by               *)
(* SMSQueueService, and the messages / message_logs tables driven by      *)
(* MessageLoggingService.                                                  *)
(*                                                                         *)
(* Time is counted in whole minutes (the backoff unit of mark_failed) and  *)
(* is observed every TickMinutes minutes.                                  *)
(* A database commit is one step; a read followed by a later write of the *)
(* same service call are two steps, so that concurrent callers interleave *)
(* exactly where the database lets them.                                   *)
(***************************************************************************)
EXTENDS Integers, Sequences, FiniteSets, TLC

\* ---------------------------------------------------------------- bounds
MaxItems    == 1      \* queue rows ever submitted
MaxTicks    == 1      \* the clock stops after this many ticks
TickMinutes == 2      \* minutes that pass between two observations of the clock
MaxMaxAtt   == 3      \* largest max_attempts a producer asks for
BatchLimit  == 2      \* limit passed to get_pending_messages
MaxMessages == 2      \* rows of table messages ever created
MaxLogs     == 4      \* rows of table message_logs ever written
MaxDays     == 2      \* whole days the clock can jump ahead

\* mark_failed is not called on a row that already has this many attempts
AttemptsCap == MaxMaxAtt
\* the clock stops advancing here
MaxTime == MaxTicks * TickMinutes
\* timedelta(days=1), in minutes
DayMinutes == 1440

\* ------------------------------------------------------------ data types
NULL == -1            \* a NULL timestamp column
None == "None"        \* a NULL string column

Workers     == {"w1", "w2"}
Handlers    == {"h1", "h2"}
ExternalIds == {"SM1"}
Priorities  == {5}

\* Reference tables read by add_to_queue.
Contacts  == (1 :> "+33612345678") @@ (2 :> "12")
Campaigns == (1 :> "active") @@ (2 :> "draft")
ValidPhones == {"+33612345678"}

VARIABLES
    now,        \* datetime.now(timezone.utc), in minutes
    sms_queue,  \* id -> row of table sms_queue
    next_id,    \* next primary key of sms_queue
    wpc,        \* per worker: "idle", "selected", "leased"
    wsel,       \* per worker: the list get_pending_messages returned
    wheld,      \* per worker: the rows mark_processing returned, not yet completed
    messages,   \* id_message -> row of table messages
    message_logs, \* table message_logs, in insertion order
    hpc,        \* per logging-service caller: "idle", "created", "counted"
    hreq,       \* per caller: the arguments of its log_message_event call
    hcount,     \* per caller: the attempt_number it computed
    batch_result, \* what the last run of process_sms_batch returned
    response    \* what the last observed endpoint or service call answered

queueVars  == <<sms_queue, next_id>>
workerVars == <<wpc, wsel, wheld>>
logVars    == <<messages, message_logs>>
handlerVars == <<hpc, hreq, hcount>>
resultVars == <<batch_result, response>>
vars == <<now, sms_queue, next_id, wpc, wsel, wheld,
          messages, message_logs, hpc, hreq, hcount, batch_result, response>>

Ids == DOMAIN sms_queue

\* ---------------------------------------------------------- pure helpers
RECURSIVE Pow2(_)
Pow2(n) == IF n = 0 THEN 1 ELSE 2 * Pow2(n - 1)

validate_and_format_phone_number(phone) == phone \in ValidPhones

\* The filter of get_pending_messages.
Eligible(row, t) ==
    /\ row.status = "pending"
    /\ row.scheduled_at <= t
    /\ (row.next_retry_at = NULL \/ row.next_retry_at <= t)

\* ORDER BY priority ASC, created_at ASC (ties broken by primary key).
Before(q, a, b) ==
    \/ q[a].priority < q[b].priority
    \/ q[a].priority = q[b].priority /\ q[a].created_at < q[b].created_at
    \/ q[a].priority = q[b].priority /\ q[a].created_at = q[b].created_at /\ a < b

RECURSIVE OrderBy(_, _)
OrderBy(q, S) ==
    IF S = {} THEN <<>>
    ELSE LET m == CHOOSE a \in S : \A b \in S \ {a} : Before(q, a, b)
         IN <<m>> \o OrderBy(q, S \ {m})

Limit(s, n) == IF Len(s) <= n THEN s ELSE SubSeq(s, 1, n)

get_pending_messages(q, t, limit) ==
    Limit(OrderBy(q, {i \in DOMAIN q : Eligible(q[i], t)}), limit)

Range(s) == {s[k] : k \in 1..Len(s)}

\* No log_message_event call in progress.
NoReq == [message |-> 0, status |-> None, provider_status |-> None,
          external_message_id |-> None, error_message |-> None,
          cost |-> NULL, queue_item_id |-> NULL]

\* No call has been observed yet.
NoResponse == [code |-> None, body |-> NULL]

\* No run of process_sms_batch has returned yet.
NoResult == [status |-> None, processed |-> NULL, sent |-> NULL, failed |-> NULL]

\* ------------------------------------------------------------------ Init
Init ==
    /\ now = 0
    /\ sms_queue = <<>>
    /\ next_id = 1
    /\ wpc = [w \in Workers |-> "idle"]
    /\ wsel = [w \in Workers |-> <<>>]
    /\ wheld = [w \in Workers |-> {}]
    /\ messages = <<>>
    /\ message_logs = <<>>
    /\ hpc = [h \in Handlers |-> "idle"]
    /\ hreq = [h \in Handlers |-> NoReq]
    /\ hcount = [h \in Handlers |-> 0]
    /\ batch_result = NoResult
    /\ response = NoResponse

\* ------------------------------------------------------------ the clock
Tick ==
    /\ now < MaxTime
    /\ now' = now + TickMinutes
    /\ UNCHANGED <<queueVars, workerVars, logVars, handlerVars, resultVars>>

\* --------------------------------------------------- SMSQueueService API
\* The row add_to_queue inserts; attempts and the nullable columns take
\* their column defaults.
SMSQueue(campaign_id, contact_id, scheduled_at, priority, max_attempts, t) ==
    [ campaign_id |-> campaign_id,
      contact_id |-> contact_id,
      scheduled_at |-> IF scheduled_at = NULL THEN t ELSE scheduled_at,
      priority |-> priority,
      max_attempts |-> max_attempts,
      status |-> "pending",
      attempts |-> 0,
      next_retry_at |-> NULL,
      last_attempt_at |-> NULL,
      processed_at |-> NULL,
      external_message_id |-> None,
      error_message |-> None,
      created_at |-> t ]

\* CHECK constraints ck_sms_queue_priority_range and
\* ck_sms_queue_max_attempts_range of table sms_queue.
ck_sms_queue(priority, max_attempts) ==
    /\ priority >= 0 /\ priority <= 10
    /\ max_attempts >= 1 /\ max_attempts <= 10

\* How a call of add_to_queue ends: the exception it raises, or "created".
\* The method checks the contact, the phone number and the campaign and
\* raises ValueError; it does not look at priority or max_attempts, and a row
\* that breaks a CHECK constraint is rejected by the database at commit.
add_to_queue_outcome(campaign_id, contact_id, priority, max_attempts) ==
    IF contact_id \notin DOMAIN Contacts THEN "ValueError"
    ELSE IF ~validate_and_format_phone_number(Contacts[contact_id]) THEN "ValueError"
    ELSE IF campaign_id \notin DOMAIN Campaigns THEN "ValueError"
    ELSE IF Campaigns[campaign_id] \notin {"active", "scheduled"} THEN "ValueError"
    ELSE IF ~ck_sms_queue(priority, max_attempts) THEN "IntegrityError"
    ELSE "created"

\* add_to_queue: validation failures raise ValueError and persist nothing.
add_to_queue(campaign_id, contact_id, scheduled_at, priority, max_attempts) ==
    /\ next_id <= MaxItems
    /\ contact_id \in DOMAIN Contacts
    /\ validate_and_format_phone_number(Contacts[contact_id])
    /\ campaign_id \in DOMAIN Campaigns
    /\ Campaigns[campaign_id] \in {"active", "scheduled"}
    /\ ck_sms_queue(priority, max_attempts)
    /\ sms_queue' = sms_queue @@ (next_id :>
            SMSQueue(campaign_id, contact_id, scheduled_at, priority, max_attempts, now))
    /\ next_id' = next_id + 1
    /\ UNCHANGED <<now, workerVars, logVars, handlerVars, resultVars>>

Submit ==
    \E campaign_id \in 1..3, contact_id \in 1..3,
       scheduled_at \in {NULL, now + 1},
       priority \in Priorities, max_attempts \in {1, MaxMaxAtt} :
        add_to_queue(campaign_id, contact_id, scheduled_at, priority, max_attempts)

\* What callers pass for priority and max_attempts, in and out of range.
RequestPriorities  == {-1, 0, 10, 11}
RequestMaxAttempts == {0, 1, 10, 11}

\* A call of add_to_queue together with the way it ends.
SubmitRequest(campaign_id, contact_id, scheduled_at, priority, max_attempts) ==
    /\ next_id <= MaxItems
    /\ LET outcome == add_to_queue_outcome(campaign_id, contact_id, priority, max_attempts)
       IN /\ response' = [code |-> outcome, body |-> NULL]
          /\ IF outcome = "created"
             THEN /\ sms_queue' = sms_queue @@ (next_id :>
                        SMSQueue(campaign_id, contact_id, scheduled_at,
                                 priority, max_attempts, now))
                  /\ next_id' = next_id + 1
             ELSE UNCHANGED queueVars
    /\ UNCHANGED <<now, workerVars, logVars, handlerVars, batch_result>>

\* A dispatcher worker drives the service through the signatures the service
\* declares: get_pending_messages(limit), mark_processing(list of rows), then
\* mark_sent(row, sid) or mark_failed(row, error, should_retry) for each row
\* that mark_processing returned.
\*
\* The worker reads the eligible rows (plain SELECT, no row lock).
GetPending(w) ==
    /\ wpc[w] = "idle"
    /\ LET items == get_pending_messages(sms_queue, now, BatchLimit)
       IN /\ items # <<>>
          /\ wsel' = [wsel EXCEPT ![w] = items]
          /\ wpc' = [wpc EXCEPT ![w] = "selected"]
    /\ UNCHANGED <<now, queueVars, wheld, logVars, handlerVars, resultVars>>

\* The UPDATE of mark_processing without its filter on status.
mark_processing_update_any_status(q, item_ids, t) ==
    [i \in DOMAIN q |->
        IF i \in item_ids
        THEN [q[i] EXCEPT !.status = "processing", !.last_attempt_at = t]
        ELSE q[i]]

\* The UPDATE of mark_processing.
mark_processing_update(q, item_ids, t) ==
    [i \in DOMAIN q |->
        IF i \in item_ids /\ q[i].status = "pending"
        THEN [q[i] EXCEPT !.status = "processing", !.last_attempt_at = t]
        ELSE q[i]]

\* The list mark_processing returns.
mark_processing_result(q, item_ids) == {i \in DOMAIN q : i \in item_ids}

MarkProcessing(w) ==
    /\ wpc[w] = "selected"
    /\ LET item_ids == Range(wsel[w])
       IN /\ sms_queue' = mark_processing_update(sms_queue, item_ids, now)
          /\ wheld' = [wheld EXCEPT ![w] = mark_processing_result(sms_queue', item_ids)]
          /\ wpc' = [wpc EXCEPT ![w] =
                        IF mark_processing_result(sms_queue', item_ids) = {}
                        THEN "idle" ELSE "leased"]
    /\ wsel' = [wsel EXCEPT ![w] = <<>>]
    /\ UNCHANGED <<now, next_id, logVars, handlerVars, resultVars>>

\* The worker is done with row i of its lease.
Release(w, i) ==
    /\ wheld' = [wheld EXCEPT ![w] = @ \ {i}]
    /\ wpc' = [wpc EXCEPT ![w] = IF wheld[w] \ {i} = {} THEN "idle" ELSE "leased"]
    /\ UNCHANGED wsel

mark_sent(row, external_message_id, t) ==
    [row EXCEPT !.status = "sent",
                !.processed_at = t,
                !.external_message_id = external_message_id,
                !.error_message = None]

MarkSent(w, i, ext) ==
    /\ wpc[w] = "leased"
    /\ i \in wheld[w]
    /\ i \in Ids
    /\ sms_queue' = [sms_queue EXCEPT ![i] = mark_sent(@, ext, now)]
    /\ Release(w, i)
    /\ UNCHANGED <<now, next_id, logVars, handlerVars, resultVars>>

\* mark_failed computing the backoff from the attempt count before the increment.
mark_failed_stale_backoff(row, error_message, should_retry, t) ==
    LET r == [row EXCEPT !.attempts = @ + 1,
                         !.last_attempt_at = t,
                         !.error_message = error_message]
    IN IF should_retry /\ r.attempts < r.max_attempts
       THEN [r EXCEPT !.next_retry_at = t + Pow2(row.attempts),
                      !.status = "pending"]
       ELSE [r EXCEPT !.status = "failed"]

\* mark_failed with the backoff subtracted from the clock instead of added.
mark_failed_backoff_in_past(row, error_message, should_retry, t) ==
    LET r == [row EXCEPT !.attempts = @ + 1,
                         !.last_attempt_at = t,
                         !.error_message = error_message]
    IN IF should_retry /\ r.attempts < r.max_attempts
       THEN [r EXCEPT !.next_retry_at = t - Pow2(r.attempts),
                      !.status = "pending"]
       ELSE [r EXCEPT !.status = "failed"]

mark_failed(row, error_message, should_retry, t) ==
    LET r == [row EXCEPT !.attempts = @ + 1,
                         !.last_attempt_at = t,
                         !.error_message = error_message]
    IN IF should_retry /\ r.attempts < r.max_attempts
       THEN [r EXCEPT !.next_retry_at = t + Pow2(r.attempts),
                      !.status = "pending"]
       ELSE [r EXCEPT !.status = "failed"]

MarkFailed(w, i, should_retry) ==
    /\ wpc[w] = "leased"
    /\ i \in wheld[w]
    /\ i \in Ids
    /\ sms_queue[i].attempts < AttemptsCap
    /\ sms_queue' = [sms_queue EXCEPT ![i] = mark_failed(@, "network", should_retry, now)]
    /\ Release(w, i)
    /\ UNCHANGED <<now, next_id, logVars, handlerVars, resultVars>>

\* cancel_message without the check of the current status.
cancel_message_any_status(q, queue_item_id, reason, t) ==
    IF queue_item_id \notin DOMAIN q THEN q
    ELSE [q EXCEPT ![queue_item_id] =
            [@ EXCEPT !.status = "cancelled",
                      !.error_message = reason,
                      !.processed_at = t]]

cancel_message(q, queue_item_id, reason, t) ==
    IF queue_item_id \notin DOMAIN q THEN q
    ELSE IF q[queue_item_id].status \notin {"pending", "processing"} THEN q
    ELSE [q EXCEPT ![queue_item_id] =
            [@ EXCEPT !.status = "cancelled",
                      !.error_message = reason,
                      !.processed_at = t]]

\* The bool cancel_message returns.
cancel_message_result(q, queue_item_id) ==
    IF queue_item_id \notin DOMAIN q THEN FALSE
    ELSE IF q[queue_item_id].status \notin {"pending", "processing"} THEN FALSE
    ELSE TRUE

Cancel(i) ==
    /\ sms_queue' = cancel_message(sms_queue, i, "Cancelled by user", now)
    /\ UNCHANGED <<now, next_id, workerVars, logVars, handlerVars, resultVars>>

\* reset_for_retry accepting every status but pending and processing.
reset_for_retry_any_terminal(q, queue_item_id) ==
    IF queue_item_id \notin DOMAIN q THEN q
    ELSE IF q[queue_item_id].status \in {"pending", "processing"} THEN q
    ELSE [q EXCEPT ![queue_item_id] =
            [@ EXCEPT !.status = "pending",
                      !.next_retry_at = NULL,
                      !.error_message = None]]

\* reset_for_retry starting the attempt count afresh.
reset_for_retry_zero_attempts(q, queue_item_id) ==
    IF queue_item_id \notin DOMAIN q THEN q
    ELSE IF q[queue_item_id].status \notin {"failed", "retry_pending"} THEN q
    ELSE [q EXCEPT ![queue_item_id] =
            [@ EXCEPT !.status = "pending",
                      !.next_retry_at = NULL,
                      !.error_message = None,
                      !.attempts = 0]]

reset_for_retry(q, queue_item_id) ==
    IF queue_item_id \notin DOMAIN q THEN q
    ELSE IF q[queue_item_id].status \notin {"failed", "retry_pending"} THEN q
    ELSE [q EXCEPT ![queue_item_id] =
            [@ EXCEPT !.status = "pending",
                      !.next_retry_at = NULL,
                      !.error_message = None]]

\* The bool reset_for_retry returns.
reset_for_retry_result(q, queue_item_id) ==
    IF queue_item_id \notin DOMAIN q THEN FALSE
    ELSE IF q[queue_item_id].status \notin {"failed", "retry_pending"} THEN FALSE
    ELSE TRUE

ResetForRetry(i) ==
    /\ sms_queue' = reset_for_retry(sms_queue, i)
    /\ UNCHANGED <<now, next_id, workerVars, logVars, handlerVars, resultVars>>

\* ---------------------------------------------- MessageLoggingService API
\* The external id the carrier assigns to the send of message m.
SidOf == <<"SM1", "SM2", "SM3">>

Lower(p) == CASE p = "Delivered" -> "delivered"
              [] OTHER -> p

twilio_mapping ==
    [ queued |-> "sent", sending |-> "sent", sent |-> "sent",
      delivered |-> "delivered", failed |-> "failed",
      undelivered |-> "failed", read |-> "delivered" ]

_map_provider_status(provider_status) ==
    IF Lower(provider_status) \in DOMAIN twilio_mapping
    THEN twilio_mapping[Lower(provider_status)]
    ELSE provider_status

\* SELECT count(*) FROM message_logs WHERE message_id = m
LogCountOf(logs, m) == Cardinality({k \in 1..Len(logs) : logs[k].message_id = m})

\* Calls of the logging service in progress.
InFlight == Cardinality({h \in Handlers : hpc[h] # "idle"})

\* create_message_record, first commit: the Message row.
Message(queue_item, initial_status, external_message_id, t) ==
    [ statut_livraison |-> initial_status,
      date_envoi |-> t,
      external_message_id |-> external_message_id,
      delivery_attempts |-> 1,
      final_status |-> None,
      delivery_timestamp |-> NULL,
      error_message |-> None,
      cost |-> NULL,
      updated_at |-> NULL,
      queue_item_id |-> queue_item ]

CreateMessageRecord(h, i, initial_status) ==
    /\ hpc[h] = "idle"
    /\ i \in Ids
    /\ Len(messages) < MaxMessages
    /\ Len(message_logs) + InFlight < MaxLogs
    /\ messages' = Append(messages, Message(i, initial_status, None, now))
    /\ hreq' = [hreq EXCEPT ![h] =
            [NoReq EXCEPT !.message = Len(messages) + 1,
                          !.status = initial_status,
                          !.queue_item_id = i]]
    /\ hpc' = [hpc EXCEPT ![h] = "created"]
    /\ UNCHANGED <<now, queueVars, workerVars, message_logs, hcount, resultVars>>

\* log_message_event, the read: attempt_number = count + 1.
attempt_number(logs, m) == LogCountOf(logs, m) + 1

\* create_message_record goes on to call log_message_event.
LogCount(h) ==
    /\ hpc[h] = "created"
    /\ hcount' = [hcount EXCEPT ![h] = attempt_number(message_logs, hreq[h].message)]
    /\ hpc' = [hpc EXCEPT ![h] = "counted"]
    /\ UNCHANGED <<now, queueVars, workerVars, logVars, hreq, resultVars>>

\* The dispatcher's mapping of the carrier status of a send result.
DispatchStatus(provider_status) ==
    IF provider_status \in {"queued", "sending"} THEN "sent"
    ELSE IF provider_status = "delivered" THEN "delivered"
    ELSE IF provider_status \in {"failed", "undelivered"} THEN "failed"
    ELSE "sent"

\* Statuses the carrier answers a send with.
SendResults == {"queued", "accepted", "failed"}

\* The dispatcher's log_message_event call for the send result of message m.
SentEvent(m, provider_status) ==
    [NoReq EXCEPT !.message = m,
                  !.status = DispatchStatus(provider_status),
                  !.provider_status = provider_status,
                  !.external_message_id = SidOf[m],
                  !.queue_item_id = messages[m].queue_item_id]

\* Rows of message m written by the dispatcher (they carry queue_item_id).
DispatcherRows(m) ==
    Cardinality({k \in 1..Len(message_logs) :
                    /\ message_logs[k].message_id = m
                    /\ message_logs[k].queue_item_id # NULL})

\* The dispatcher logs the send result of m once, after create_message_record
\* has returned the Message (so after its first log row is committed).
LogMessageEvent(h, m, provider_status) ==
    /\ hpc[h] = "idle"
    /\ m \in DOMAIN messages
    /\ DispatcherRows(m) = 1
    /\ \A g \in Handlers : ~(hreq[g].message = m /\ hreq[g].queue_item_id # NULL)
    /\ Len(message_logs) + InFlight < MaxLogs
    /\ hreq' = [hreq EXCEPT ![h] = SentEvent(m, provider_status)]
    /\ hcount' = [hcount EXCEPT ![h] = attempt_number(message_logs, m)]
    /\ hpc' = [hpc EXCEPT ![h] = "counted"]
    /\ UNCHANGED <<now, queueVars, workerVars, logVars, resultVars>>

\* The lookup falling back to the newest Message when no external id matches.
MessageByExternalId_or_latest(msgs, ext) ==
    LET hits == {m \in DOMAIN msgs : msgs[m].external_message_id = ext}
    IN IF hits = {} THEN Len(msgs) ELSE CHOOSE m \in hits : \A n \in hits : m <= n

\* update_delivery_status: Message.external_message_id == external id, .first()
MessageByExternalId(msgs, ext) ==
    LET hits == {m \in DOMAIN msgs : msgs[m].external_message_id = ext}
    IN IF hits = {} THEN 0 ELSE CHOOSE m \in hits : \A n \in hits : m <= n

ProviderStatuses == {"sent", "delivered", "undelivered"}

\* update_delivery_status up to the read of log_message_event: the lookup,
\* the mapping and the attempt count.  The write is LogCommit.
update_delivery_status(h, ext, provider_status) ==
    /\ hpc[h] = "idle"
    /\ Len(message_logs) + InFlight < MaxLogs
    /\ LET m == MessageByExternalId(messages, ext)
       IN IF m = 0
          THEN UNCHANGED handlerVars
          ELSE /\ hreq' = [hreq EXCEPT ![h] =
                      [NoReq EXCEPT !.message = m,
                                    !.status = _map_provider_status(provider_status),
                                    !.provider_status = provider_status]]
               /\ hcount' = [hcount EXCEPT ![h] = attempt_number(message_logs, m)]
               /\ hpc' = [hpc EXCEPT ![h] = "counted"]

\* The bool update_delivery_status returns.
update_delivery_status_result(msgs, ext) == MessageByExternalId(msgs, ext) # 0

\* The service called directly (the status poller).
UpdateDeliveryStatus(h, ext, provider_status) ==
    /\ update_delivery_status(h, ext, provider_status)
    /\ UNCHANGED <<now, queueVars, workerVars, logVars, resultVars>>

\* log_message_event, the write: the MessageLog row ...
MessageLog(req, n, t) ==
    [ message_id |-> req.message,
      queue_item_id |-> req.queue_item_id,
      status |-> req.status,
      provider_status |-> req.provider_status,
      error_message |-> req.error_message,
      attempt_number |-> n,
      external_message_id |-> req.external_message_id,
      cost |-> req.cost,
      created_at |-> t ]

\* The fold assigning external_message_id, error_message and cost whatever
\* the event carries.
log_message_event_overwrite(msg, req, n, t) ==
    LET m1 == [msg EXCEPT !.statut_livraison = req.status,
                          !.delivery_attempts = n,
                          !.updated_at = t,
                          !.external_message_id = req.external_message_id,
                          !.error_message = req.error_message,
                          !.cost = req.cost]
        m5 == IF req.status \in {"delivered", "failed", "bounced"}
              THEN [m1 EXCEPT !.final_status = req.status] ELSE m1
    IN IF req.status = "delivered"
       THEN [m5 EXCEPT !.delivery_timestamp = t] ELSE m5

\* The fold keeping a final_status that is already set.
log_message_event_first_final_wins(msg, req, n, t) ==
    LET m1 == [msg EXCEPT !.statut_livraison = req.status,
                          !.delivery_attempts = n,
                          !.updated_at = t]
        m2 == IF req.external_message_id # None
              THEN [m1 EXCEPT !.external_message_id = req.external_message_id] ELSE m1
        m3 == IF req.error_message # None
              THEN [m2 EXCEPT !.error_message = req.error_message] ELSE m2
        m4 == IF req.cost # NULL /\ req.cost # 0
              THEN [m3 EXCEPT !.cost = req.cost] ELSE m3
        m5 == IF req.status \in {"delivered", "failed", "bounced"}
                 /\ msg.final_status = None
              THEN [m4 EXCEPT !.final_status = req.status] ELSE m4
    IN IF req.status = "delivered"
       THEN [m5 EXCEPT !.delivery_timestamp = t] ELSE m5

\* ... and the fold into the Message row.
log_message_event(msg, req, n, t) ==
    LET m1 == [msg EXCEPT !.statut_livraison = req.status,
                          !.delivery_attempts = n,
                          !.updated_at = t]
        m2 == IF req.external_message_id # None
              THEN [m1 EXCEPT !.external_message_id = req.external_message_id] ELSE m1
        m3 == IF req.error_message # None
              THEN [m2 EXCEPT !.error_message = req.error_message] ELSE m2
        m4 == IF req.cost # NULL /\ req.cost # 0
              THEN [m3 EXCEPT !.cost = req.cost] ELSE m3
        m5 == IF req.status \in {"delivered", "failed", "bounced"}
              THEN [m4 EXCEPT !.final_status = req.status] ELSE m4
    IN IF req.status = "delivered"
       THEN [m5 EXCEPT !.delivery_timestamp = t] ELSE m5

\* A write that replaces the newest row of the same Message, if there is one.
db_merge_latest(logs, log_entry) ==
    LET own == {k \in 1..Len(logs) : logs[k].message_id = log_entry.message_id}
    IN IF own = {} THEN Append(logs, log_entry)
       ELSE [logs EXCEPT ![CHOOSE k \in own : \A j \in own : j <= k] = log_entry]

\* self.db.add(log_entry): an INSERT into message_logs.
db_add(logs, log_entry) == Append(logs, log_entry)

LogCommit(h) ==
    /\ hpc[h] = "counted"
    /\ message_logs' = db_add(message_logs, MessageLog(hreq[h], hcount[h], now))
    /\ messages' = [messages EXCEPT ![hreq[h].message] =
                        log_message_event(@, hreq[h], hcount[h], now)]
    /\ hpc' = [hpc EXCEPT ![h] = "idle"]
    /\ hreq' = [hreq EXCEPT ![h] = NoReq]
    /\ hcount' = [hcount EXCEPT ![h] = 0]
    /\ UNCHANGED <<now, queueVars, workerVars, resultVars>>

\* What a caller of log_message_event passes for external_message_id,
\* error_message and cost: nothing, or all three.
EventDetails ==
    { [external_message_id |-> None, error_message |-> None, cost |-> NULL],
      [external_message_id |-> "SM9", error_message |-> "30003", cost |-> 5] }

EventStatuses == {"sent", "delivered", "failed"}

\* log_message_event called directly for Message m, up to its read of the
\* attempt count.  The write is LogCommit.
LogEvent(h, m, status, details) ==
    /\ hpc[h] = "idle"
    /\ m \in DOMAIN messages
    /\ Len(message_logs) + InFlight < MaxLogs
    /\ hreq' = [hreq EXCEPT ![h] =
            [NoReq EXCEPT !.message = m,
                          !.status = status,
                          !.external_message_id = details.external_message_id,
                          !.error_message = details.error_message,
                          !.cost = details.cost]]
    /\ hcount' = [hcount EXCEPT ![h] = attempt_number(message_logs, m)]
    /\ hpc' = [hpc EXCEPT ![h] = "counted"]
    /\ UNCHANGED <<now, queueVars, workerVars, logVars, resultVars>>

\* ------------------------------------------------------------ webhooks
\* a or b on two form fields: a missing or empty field is None.
Or(a, b) == IF a # None THEN a ELSE b

\* The form fields a receipt carries.
Payloads ==
    [ MessageSid : {None, "SM1", "SM0"}, SmsSid : {None, "SM1"},
      MessageStatus : {None, "delivered"}, SmsStatus : {None, "undelivered"} ]

\* f"internal_{message_id}"
InternalSid == <<"internal_1", "internal_2", "internal_3", "internal_4">>

\* WebhookService.handle_delivery_status, the legacy handler the carrier
\* endpoint calls first: the receipt ingester leaves the Message rows to
\* update_delivery_status.
handle_delivery_status(msgs, payload) == msgs

\* The carrier endpoint answering 404 for a receipt whose Message is absent.
sms_delivery_webhook_404_when_absent(payload) ==
    IF Or(payload.MessageSid, payload.SmsSid) = None
       \/ Or(payload.MessageStatus, payload.SmsStatus) = None
    THEN "400"
    ELSE IF MessageByExternalId(messages, Or(payload.MessageSid, payload.SmsSid)) = 0
    THEN "404" ELSE "200"

\* The status code sms_delivery_webhook answers with.
sms_delivery_webhook(payload) ==
    IF Or(payload.MessageSid, payload.SmsSid) = None
       \/ Or(payload.MessageStatus, payload.SmsStatus) = None
    THEN "400" ELSE "200"

\* POST /webhooks/sms/delivery with a request that passed
\* validate_twilio_request.  The answer is decided here; for a Message that
\* was found the log write (LogCommit) precedes it.
SmsDeliveryWebhook(h, payload) ==
    /\ hpc[h] = "idle"
    /\ response' = [code |-> sms_delivery_webhook(payload), body |-> NULL]
    /\ IF sms_delivery_webhook(payload) = "400"
       THEN UNCHANGED <<logVars, handlerVars>>
       ELSE /\ messages' = handle_delivery_status(messages, payload)
            /\ update_delivery_status(h, Or(payload.MessageSid, payload.SmsSid),
                                      Or(payload.MessageStatus, payload.SmsStatus))
            /\ UNCHANGED message_logs
    /\ UNCHANGED <<now, queueVars, workerVars, batch_result>>

\* The status code message_status_webhook answers with.
message_status_webhook(msgs, message_id, payload) ==
    IF Or(payload.MessageStatus, payload.SmsStatus) = None THEN "400"
    ELSE IF update_delivery_status_result(msgs,
               Or(Or(payload.MessageSid, payload.SmsSid), InternalSid[message_id]))
    THEN "200" ELSE "404"

\* POST /webhooks/sms/status/{message_id}.
MessageStatusWebhook(h, message_id, payload) ==
    /\ hpc[h] = "idle"
    /\ response' = [code |-> message_status_webhook(messages, message_id, payload),
                    body |-> NULL]
    /\ IF Or(payload.MessageStatus, payload.SmsStatus) = None
       THEN UNCHANGED handlerVars
       ELSE update_delivery_status(h,
               Or(Or(payload.MessageSid, payload.SmsSid), InternalSid[message_id]),
               Or(payload.MessageStatus, payload.SmsStatus))
    /\ UNCHANGED <<now, queueVars, workerVars, logVars, batch_result>>

\* ------------------------------------------------------- status poller
\* datetime.hour of an instant given in minutes.
HourOf(t) == (t \div 60) % 24

\* datetime.replace(hour=hour): ValueError unless hour is in 0..23.
replace_hour(t, hour) ==
    IF hour \in 0..23
    THEN [raised |-> FALSE, value |-> t - HourOf(t) * 60 + hour * 60]
    ELSE [raised |-> TRUE, value |-> 0]

\* A cutoff that never raises and reaches back before every Message.
cutoff_time_unbounded(t) == [raised |-> FALSE, value |-> 0 - DayMinutes]

\* cutoff_time = now.replace(hour = now.hour - 24)
cutoff_time(t) == replace_hour(t, HourOf(t) - 24)

\* The Messages check_delivery_status selects.
pending_messages(msgs, cutoff) ==
    {m \in DOMAIN msgs : /\ msgs[m].statut_livraison = "sent"
                         /\ msgs[m].date_envoi >= cutoff
                         /\ msgs[m].external_message_id # None}

\* What the carrier answers a status query with.
PollAnswers == {"sent", "delivered"}

\* The loop of check_delivery_status over the selected Messages, in id
\* order: update_delivery_status, with its log write, for each one whose
\* carrier status is not its statut_livraison.  Each call runs to its commit
\* before the next begins.
RECURSIVE poll_messages(_, _, _)
poll_messages(db, todo, status_response) ==
    IF todo = {} THEN db
    ELSE LET message == CHOOSE m \in todo : \A n \in todo : m <= n
             found == MessageByExternalId(db.messages,
                                          db.messages[message].external_message_id)
             req == [NoReq EXCEPT !.message = found,
                                  !.status = _map_provider_status(status_response),
                                  !.provider_status = status_response]
             n == attempt_number(db.message_logs, found)
             after ==
                IF status_response # db.messages[message].statut_livraison
                THEN [messages |-> [db.messages EXCEPT ![found] =
                                        log_message_event(@, req, n, db.now)],
                      message_logs |-> db_add(db.message_logs,
                                              MessageLog(req, n, db.now)),
                      now |-> db.now,
                      updated |-> db.updated + 1]
                ELSE db
         IN poll_messages(after, todo \ {message}, status_response)

\* One run of the periodic task check_delivery_status.
CheckDeliveryStatus(status_response) ==
    /\ InFlight = 0
    /\ IF cutoff_time(now).raised
       THEN /\ response' = [code |-> "error", body |-> NULL]
            /\ UNCHANGED logVars
       ELSE LET todo == pending_messages(messages, cutoff_time(now).value)
                done == poll_messages([messages |-> messages,
                                       message_logs |-> message_logs,
                                       now |-> now, updated |-> 0],
                                      todo, status_response)
            IN /\ Len(message_logs) + Cardinality(todo) <= MaxLogs
               /\ messages' = done.messages
               /\ message_logs' = done.message_logs
               /\ response' = [code |-> "success", body |-> done.updated]
    /\ UNCHANGED <<now, queueVars, workerVars, handlerVars, batch_result>>

\* ------------------------------------------------------------ cleanup
\* A day passes.
TickDay ==
    /\ now < MaxDays * DayMinutes
    /\ now' = now + DayMinutes
    /\ UNCHANGED <<queueVars, workerVars, logVars, handlerVars, resultVars>>

\* The filter of cleanup_old_records and get_cleanup_preview.  In SQL a NULL
\* processed_at compares as unknown, so the row does not match.
Old(row, cutoff_date) ==
    row.processed_at # NULL /\ row.processed_at < cutoff_date

\* The filter with NULL read as the earliest instant.
OldOrNull(row, cutoff_date) == row.processed_at < cutoff_date

\* The ids cleanup_old_records deletes, with NULL read as the earliest instant.
cleanup_matches_null_as_oldest(q, days_to_keep, t) ==
    {i \in DOMAIN q : /\ q[i].status \in {"sent", "failed", "cancelled"}
                      /\ OldOrNull(q[i], t - days_to_keep * DayMinutes)}

\* The ids cleanup_old_records deletes.
cleanup_matches(q, days_to_keep, t) ==
    {i \in DOMAIN q : /\ q[i].status \in {"sent", "failed", "cancelled"}
                      /\ Old(q[i], t - days_to_keep * DayMinutes)}

\* Table sms_queue after the DELETE.
cleanup_old_records(q, days_to_keep, t) ==
    [i \in DOMAIN q \ cleanup_matches(q, days_to_keep, t) |-> q[i]]

\* messages.queue_item_id and message_logs.queue_item_id are foreign keys
\* ON DELETE SET NULL.
SetNull(rows, deleted) ==
    [k \in DOMAIN rows |->
        IF rows[k].queue_item_id \in deleted
        THEN [rows[k] EXCEPT !.queue_item_id = NULL] ELSE rows[k]]

\* The service called the way it declares: cleanup_old_records(days_to_keep).
KeepDays == {0, 1}

CleanupOldRecords(days_to_keep) ==
    LET deleted == cleanup_matches(sms_queue, days_to_keep, now)
    IN /\ sms_queue' = cleanup_old_records(sms_queue, days_to_keep, now)
       /\ messages' = SetNull(messages, deleted)
       /\ message_logs' = SetNull(message_logs, deleted)
       /\ response' = [code |-> "deleted", body |-> Cardinality(deleted)]
       /\ UNCHANGED <<now, next_id, workerVars, handlerVars, batch_result>>

CountOld(q, status, cutoff_date) ==
    Cardinality({i \in DOMAIN q : q[i].status = status /\ Old(q[i], cutoff_date)})

get_cleanup_preview(q, days, t) ==
    LET cutoff_date == t - days * DayMinutes
        old_sent_count == CountOld(q, "sent", cutoff_date)
        old_failed_count == CountOld(q, "failed", cutoff_date)
        old_cancelled_count == CountOld(q, "cancelled", cutoff_date)
    IN [ sent_records |-> old_sent_count,
         failed_records |-> old_failed_count,
         cancelled_records |-> old_cancelled_count,
         total_records |-> old_sent_count + old_failed_count + old_cancelled_count ]

\* POST /queue/cleanup.  With dry_run it answers the preview.  Without, it
\* calls cleanup_old_records(days=days); the parameter is named days_to_keep,
\* so the call raises TypeError before the method body runs and the handler
\* of line 342 answers 500.
EndpointDays == {1}

trigger_cleanup(q, days, dry_run, t) ==
    IF dry_run
    THEN [code |-> "200", body |-> get_cleanup_preview(q, days, t).total_records]
    ELSE [code |-> "500", body |-> NULL]

TriggerCleanup(days, dry_run) ==
    /\ response' = trigger_cleanup(sms_queue, days, dry_run, now)
    /\ UNCHANGED <<now, queueVars, workerVars, logVars, handlerVars, batch_result>>

\* ------------------------------------------------- the dispatcher task
\* What the carrier answers to a send: the status of an accepted message, or
\* the code of the TwilioApiError it raises.
CarrierAnswers == {"queued", "21211", "20429"}

permanent_error_codes ==
    {"21211", "21214", "21408", "21610", "30007", "30008"}

_is_permanent_twilio_error(code) == code \in permanent_error_codes

\* The value process_sms_batch returns.  With no eligible row it returns at
\* line 91.  Otherwise the loop body of the first row raises at its first
\* statement: line 104 passes item.id, an int, to mark_processing, which
\* iterates its argument (line 133), a TypeError.  The handler of line 207
\* skips the log call (hasattr(locals(), 'message') is False for a dict) and
\* calls mark_failed with the keywords queue_item_id and is_permanent, which
\* mark_failed does not declare: a second TypeError, raised inside the
\* handler, leaves the loop and is caught at line 250.  No statement of the
\* pass has written to the database, and send_sms (line 116) was not reached.
process_sms_batch(q, t, batch_size, send_sms) ==
    LET pending_items == get_pending_messages(q, t, batch_size)
    IN IF pending_items = <<>>
       THEN [NoResult EXCEPT !.status = "success", !.processed = 0]
       ELSE [NoResult EXCEPT !.status = "error"]

ProcessSmsBatch(send_sms) ==
    /\ batch_result' = process_sms_batch(sms_queue, now, BatchLimit, send_sms)
    /\ UNCHANGED <<now, queueVars, workerVars, logVars, handlerVars, response>>

\* A worker process dies: what it had selected or leased is forgotten, what
\* it had committed stays.
Crash(w) ==
    /\ wpc[w] # "idle"
    /\ wpc' = [wpc EXCEPT ![w] = "idle"]
    /\ wsel' = [wsel EXCEPT ![w] = <<>>]
    /\ wheld' = [wheld EXCEPT ![w] = {}]
    /\ UNCHANGED <<now, queueVars, logVars, handlerVars, resultVars>>

\* One dispatcher worker, the producer, the operator's cancel / retry
\* endpoints and the clock.
QueueNext(W) ==
    \/ Tick
    \/ Submit
    \/ \E w \in W : GetPending(w)
    \/ \E w \in W : MarkProcessing(w)
    \/ \E w \in W, i \in 1..MaxItems, ext \in ExternalIds : MarkSent(w, i, ext)
    \/ \E w \in W, i \in 1..MaxItems, sr \in BOOLEAN : MarkFailed(w, i, sr)
    \/ \E i \in 1..MaxItems : Cancel(i)
    \/ \E i \in 1..MaxItems : ResetForRetry(i)

Next == QueueNext({"w1"})

Spec == Init /\ [][Next]_vars

\* Two dispatcher workers running against the same queue.
RaceNext == QueueNext(Workers)

SpecRace == Init /\ [][RaceNext]_vars

\* The periodic task process_sms_batch next to the clients of the queue
\* service.
BatchNext ==
    \/ Next
    \/ \E send_sms \in CarrierAnswers : ProcessSmsBatch(send_sms)

SpecBatch == Init /\ [][BatchNext]_vars

\* What one worker does next.
WorkerStep(w) ==
    \/ GetPending(w)
    \/ MarkProcessing(w)
    \/ \E i \in 1..MaxItems, ext \in ExternalIds : MarkSent(w, i, ext)
    \/ \E i \in 1..MaxItems, sr \in BOOLEAN : MarkFailed(w, i, sr)

\* The queue service driven for one row that was submitted with
\* max_attempts = 2.
RetryInit ==
    /\ now = 0
    /\ sms_queue = (1 :> SMSQueue(1, 1, NULL, 5, 2, 0))
    /\ next_id = 2
    /\ wpc = [w \in Workers |-> "idle"]
    /\ wsel = [w \in Workers |-> <<>>]
    /\ wheld = [w \in Workers |-> {}]
    /\ messages = <<>>
    /\ message_logs = <<>>
    /\ hpc = [h \in Handlers |-> "idle"]
    /\ hreq = [h \in Handlers |-> NoReq]
    /\ hcount = [h \in Handlers |-> 0]
    /\ batch_result = NoResult
    /\ response = NoResponse

\* The endpoints are called with the ids in use and with the next, unused id.
RetryNext ==
    \/ Tick
    \/ WorkerStep("w1")
    \/ \E i \in 1..next_id : Cancel(i)
    \/ \E i \in 1..next_id : ResetForRetry(i)

SpecRetry == RetryInit /\ [][RetryNext]_vars

\* Producers calling add_to_queue with valid and invalid arguments, next to
\* one worker and the cancel endpoint.
SubmitNext ==
    \/ Tick
    \/ WorkerStep("w1")
    \/ \E campaign_id \in 1..3, contact_id \in 1..3, scheduled_at \in {NULL, now + 1},
          priority \in RequestPriorities, max_attempts \in RequestMaxAttempts :
          SubmitRequest(campaign_id, contact_id, scheduled_at, priority, max_attempts)
    \/ \E i \in 1..MaxItems : Cancel(i)

SpecSubmit == Init /\ [][SubmitNext]_vars

\* Two dispatcher workers, the cancel endpoint and the retry endpoint on one
\* row that was submitted with max_attempts = 2.
LeaseNext ==
    \/ Tick
    \/ \E w \in Workers : WorkerStep(w)
    \/ \E i \in 1..next_id : Cancel(i)
    \/ \E i \in 1..next_id : ResetForRetry(i)

SpecLease == RetryInit /\ [][LeaseNext]_vars

\* Retention: a producer of single-attempt rows, one worker, the cancel
\* endpoint, the cleanup service and endpoint, and days passing.
CleanupNext ==
    \/ TickDay
    \/ add_to_queue(1, 1, NULL, 5, 1)
    \/ WorkerStep("w1")
    \/ \E i \in 1..MaxItems : Cancel(i)
    \/ \E days_to_keep \in KeepDays : CleanupOldRecords(days_to_keep)
    \/ \E days \in EndpointDays, dry_run \in BOOLEAN : TriggerCleanup(days, dry_run)

SpecCleanup == Init /\ [][CleanupNext]_vars

\* The system left to itself (no operator retry): the producer, the cancel
\* endpoint, one worker that may crash, and the periodic task.  The clock
\* advances, the periodic task is scheduled again and again, and a worker
\* that is alive takes its next step.
FairNext ==
    \/ Tick
    \/ Submit
    \/ WorkerStep("w1")
    \/ \E i \in 1..MaxItems : Cancel(i)
    \/ \E send_sms \in CarrierAnswers : ProcessSmsBatch(send_sms)
    \/ Crash("w1")

SpecFair ==
    /\ Init
    /\ [][FairNext]_vars
    /\ WF_vars(Tick)
    /\ WF_vars(\E send_sms \in CarrierAnswers : ProcessSmsBatch(send_sms))
    /\ WF_vars(WorkerStep("w1"))

\* The logging service driven by concurrent callers (the dispatcher and the
\* webhook handlers) for a queue row that a worker has leased.
LogInit ==
    /\ now = 0
    /\ sms_queue = mark_processing_update(1 :> SMSQueue(1, 1, NULL, 5, 3, 0), {1}, 0)
    /\ next_id = 2
    /\ wpc = [w \in Workers |-> IF w = "w1" THEN "leased" ELSE "idle"]
    /\ wsel = [w \in Workers |-> <<>>]
    /\ wheld = [w \in Workers |-> IF w = "w1" THEN {1} ELSE {}]
    /\ messages = <<>>
    /\ message_logs = <<>>
    /\ hpc = [h \in Handlers |-> "idle"]
    /\ hreq = [h \in Handlers |-> NoReq]
    /\ hcount = [h \in Handlers |-> 0]
    /\ batch_result = NoResult
    /\ response = NoResponse

LogNext ==
    \/ Tick
    \/ \E h \in Handlers, i \in 1..MaxItems : CreateMessageRecord(h, i, "processing")
    \/ \E h \in Handlers : LogCount(h)
    \/ \E h \in Handlers, m \in 1..MaxMessages, ps \in SendResults :
          LogMessageEvent(h, m, ps)
    \/ \E h \in Handlers, ext \in {SidOf[m] : m \in 1..MaxMessages} \cup {"SM0"},
          ps \in ProviderStatuses : UpdateDeliveryStatus(h, ext, ps)
    \/ \E h \in Handlers : LogCommit(h)

SpecLog == LogInit /\ [][LogNext]_vars

\* One handler at a time serving the dispatcher's logging calls, the status
\* poller and the two webhook endpoints, for a queue row that a worker has
\* leased.
HookNext ==
    \/ \E i \in 1..MaxItems : CreateMessageRecord("h1", i, "processing")
    \/ LogCount("h1")
    \/ \E m \in 1..MaxMessages : LogMessageEvent("h1", m, "queued")
    \/ \E ext \in {SidOf[m] : m \in 1..MaxMessages} \cup {"SM0"},
          ps \in ProviderStatuses : UpdateDeliveryStatus("h1", ext, ps)
    \/ \E payload \in Payloads : SmsDeliveryWebhook("h1", payload)
    \/ \E message_id \in 1..(MaxMessages + 1), payload \in Payloads :
          MessageStatusWebhook("h1", message_id, payload)
    \/ LogCommit("h1")

SpecHook == LogInit /\ [][HookNext]_vars

\* One caller at a time (no two calls overlap) creating Messages for the
\* leased row and logging events for them.
EventNext ==
    \/ \E i \in 1..MaxItems : CreateMessageRecord("h1", i, "processing")
    \/ LogCount("h1")
    \/ \E m \in 1..MaxMessages, status \in EventStatuses, details \in EventDetails :
          LogEvent("h1", m, status, details)
    \/ LogCommit("h1")

SpecEvent == LogInit /\ [][EventNext]_vars

\* The life of one leased row and its Messages up to retention: the worker
\* reports the send, one caller at a time logs events and receipts, days
\* pass and the cleanup service runs.
AppendNext ==
    \/ TickDay
    \/ \E i \in 1..MaxItems, ext \in ExternalIds : MarkSent("w1", i, ext)
    \/ \E i \in 1..MaxItems : CreateMessageRecord("h1", i, "processing")
    \/ LogCount("h1")
    \/ \E m \in 1..MaxMessages : LogMessageEvent("h1", m, "queued")
    \/ \E ext \in {SidOf[m] : m \in 1..MaxMessages} :
          UpdateDeliveryStatus("h1", ext, "delivered")
    \/ LogCommit("h1")
    \/ \E days_to_keep \in KeepDays : CleanupOldRecords(days_to_keep)

SpecAppend == LogInit /\ [][AppendNext]_vars

\* The status poller next to one caller that creates Messages and logs
\* their sends, with days passing.
PollNext ==
    \/ TickDay
    \/ \E i \in 1..MaxItems : CreateMessageRecord("h1", i, "processing")
    \/ LogCount("h1")
    \/ \E m \in 1..MaxMessages : LogMessageEvent("h1", m, "queued")
    \/ LogCommit("h1")
    \/ \E status_response \in PollAnswers : CheckDeliveryStatus(status_response)

SpecPoll == LogInit /\ [][PollNext]_vars

\* ================================================================ claims
Terminal == {"sent", "failed", "cancelled"}

\* C1: no queue item is held by more than one dispatcher worker at a time:
\* the item sets two concurrent lease calls return are disjoint.
C1_LeasesDisjoint ==
    \A a, b \in Workers : a # b => wheld[a] \cap wheld[b] = {}

\* C2: every change of a queue item's status is one of the six legal
\* transitions; sent, failed and cancelled are never left.
LegalTransitions ==
    { <<"pending", "processing">>, <<"processing", "sent">>,
      <<"processing", "pending">>, <<"processing", "failed">>,
      <<"pending", "cancelled">>, <<"processing", "cancelled">> }

C2_OnlyLegalTransitions ==
    [][\A i \in Ids :
          sms_queue'[i].status # sms_queue[i].status
             => <<sms_queue[i].status, sms_queue'[i].status>> \in LegalTransitions]_vars

\* C3: every queue item has attempts <= max_attempts.
C3_AttemptsBounded ==
    \A i \in Ids : sms_queue[i].attempts <= sms_queue[i].max_attempts

\* C4: every queue item whose status is sent, failed or cancelled has
\* processed_at set.
C4_TerminalHasProcessedAt ==
    \A i \in Ids : sms_queue[i].status \in Terminal => sms_queue[i].processed_at # NULL

\* C5: in every committed state each Message's delivery_attempts equals the
\* number of its MessageLog rows.
C5_AttemptsEqualLogCount ==
    \A m \in DOMAIN messages :
        messages[m].delivery_attempts = LogCountOf(message_logs, m)

\* C6: once a Message's final_status is set, no later event changes it.
C6_FinalStatusStable ==
    [][\A m \in DOMAIN messages :
          messages[m].final_status # None
             => messages'[m].final_status = messages[m].final_status]_vars

\* C7: a Message's delivery_timestamp, once set by the first delivered event,
\* never changes.
C7_DeliveryTimestampSetOnce ==
    [][\A m \in DOMAIN messages :
          messages[m].delivery_timestamp # NULL
             => messages'[m].delivery_timestamp = messages[m].delivery_timestamp]_vars

\* C8: the attempt_number values of the log rows of one message are exactly
\* 1..n, without duplicates and in creation order.
LogsOf(m) == SelectSeq(message_logs, LAMBDA row : row.message_id = m)

C8_AttemptNumbersAreRanks ==
    \A m \in DOMAIN messages :
        \A k \in 1..Len(LogsOf(m)) : LogsOf(m)[k].attempt_number = k

\* C9: an item that moves from pending to processing is eligible at that
\* moment (pending, scheduled_at <= now, next_retry_at null or <= now).
C9_LeasedOnlyWhenEligible ==
    [][\A i \in Ids :
          (sms_queue[i].status = "pending" /\ sms_queue'[i].status = "processing")
             => Eligible(sms_queue[i], now)]_vars

\* C10: after mark_failed with a transient error that leaves attempts = k with
\* k < max_attempts, the item is pending and
\* next_retry_at - last_attempt_at = 2^k minutes.
C10_BackoffLaw ==
    [][\A w \in Workers, i \in Ids :
          (MarkFailed(w, i, TRUE) /\ sms_queue'[i].attempts < sms_queue'[i].max_attempts)
             => /\ sms_queue'[i].status = "pending"
                /\ sms_queue'[i].next_retry_at - sms_queue'[i].last_attempt_at
                      = Pow2(sms_queue'[i].attempts)]_vars

\* A second transient failure has been recorded with a retry left: k = 2,
\* four minutes of backoff.
C10_Witness ==
    \E i \in Ids :
        /\ sms_queue[i].status = "pending"
        /\ sms_queue[i].attempts = 2
        /\ sms_queue[i].attempts < sms_queue[i].max_attempts
        /\ sms_queue[i].error_message = "network"
        /\ sms_queue[i].next_retry_at = sms_queue[i].last_attempt_at + 4

\* C11: mark_sent takes effect only on an item whose current status is
\* processing: a mark_sent call that finds the item cancelled (or otherwise
\* out of processing) does not set its status to sent.
C11_MarkSentRequiresProcessing ==
    [][\A w \in Workers, i \in Ids, ext \in ExternalIds :
          (MarkSent(w, i, ext) /\ sms_queue[i].status # "processing")
             => sms_queue'[i].status # "sent"]_vars

\* C12: an item cancelled while pending, before any lease touched it
\* (last_attempt_at still NULL), is never leased or sent afterwards: no
\* worker comes to hold it and its status remains cancelled.
CancelledBeforeLease(row) ==
    row.status = "cancelled" /\ row.last_attempt_at = NULL

C12_CancelledBeforeLeaseStays ==
    [][\A i \in Ids :
          CancelledBeforeLease(sms_queue[i])
             => /\ sms_queue'[i].status = "cancelled"
                /\ \A w \in Workers : i \in wheld'[w] => i \in wheld[w]]_vars

C14_ExhaustedRetriesClearRetry ==
    [][\A w \in Workers, i \in Ids :
          (/\ MarkFailed(w, i, TRUE)
           /\ sms_queue[i].max_attempts >= 2
           /\ sms_queue'[i].attempts = sms_queue[i].max_attempts)
             => /\ sms_queue'[i].status = "failed"
                /\ sms_queue'[i].next_retry_at = NULL]_vars

\* The rows a run of process_sms_batch starting now would dispatch.
Batch == Range(get_pending_messages(sms_queue, now, BatchLimit))

\* C15: when the carrier rejects the send of a fresh item with a permanent
\* error code, the dispatcher pass leaves the queue item failed after exactly
\* one attempt (attempts = 1, no retry scheduled) and the item's Message has
\* final_status = failed with a failed log row.
C15_PermanentErrorFailsOnce ==
    [][\A send_sms \in CarrierAnswers, i \in Ids :
          (/\ ProcessSmsBatch(send_sms)
           /\ _is_permanent_twilio_error(send_sms)
           /\ i \in Batch
           /\ sms_queue[i].attempts = 0)
             => /\ sms_queue'[i].status = "failed"
                /\ sms_queue'[i].attempts = 1
                /\ sms_queue'[i].next_retry_at = NULL
                /\ \E m \in DOMAIN messages' :
                      /\ messages'[m].queue_item_id = i
                      /\ messages'[m].final_status = "failed"
                      /\ \E k \in 1..Len(message_logs') :
                            /\ message_logs'[k].message_id = m
                            /\ message_logs'[k].status = "failed"]_vars

\* C16: an error while processing one item never aborts the dispatcher pass:
\* the pass returns its processed / sent / failed tallies, every item of the
\* batch is processed, and a failed item has its attempt counted by
\* mark_failed.
C16_PassNeverAborts ==
    [][\A send_sms \in CarrierAnswers :
          (ProcessSmsBatch(send_sms) /\ Batch # {})
             => /\ batch_result'.status = "success"
                /\ batch_result'.processed = Cardinality(Batch)
                /\ batch_result'.sent + batch_result'.failed = batch_result'.processed
                /\ \A i \in Batch :
                      \/ sms_queue'[i].status = "sent"
                      \/ sms_queue'[i].attempts = sms_queue[i].attempts + 1]_vars

\* C17: no queue item stays in processing forever: an item left in
\* processing by a pass that crashed is returned to pending, or reaches sent,
\* failed or cancelled.
C17_ProcessingIsLeft ==
    \A i \in 1..MaxItems :
        (i \in Ids /\ sms_queue[i].status = "processing")
            ~> (i \in Ids /\ sms_queue[i].status # "processing")

\* C18: with the clock advancing and the dispatcher scheduled fairly, and
\* without operator retries, every submitted item whose scheduled_at is
\* reached eventually is sent, failed or cancelled, with at most max_attempts
\* attempts.
C18_DueItemsTerminate ==
    \A i \in 1..MaxItems :
        (i \in Ids /\ sms_queue[i].scheduled_at <= now)
            ~> (/\ i \in Ids
                /\ sms_queue[i].status \in Terminal
                /\ sms_queue[i].attempts <= sms_queue[i].max_attempts)

\* C19: when the first dispatch of an item succeeds with carrier status
\* queued, the queue item ends sent with the carrier's external id, its
\* Message has statut_livraison = sent, and that Message has exactly two log
\* rows, with attempt_number 1 and 2.
C19_FirstDispatchQueued ==
    [][\A i \in Ids :
          (/\ ProcessSmsBatch("queued")
           /\ i \in Batch
           /\ sms_queue[i].attempts = 0
           /\ \A m \in DOMAIN messages : messages[m].queue_item_id # i)
             => /\ sms_queue'[i].status = "sent"
                /\ sms_queue'[i].external_message_id # None
                /\ \E m \in DOMAIN messages' :
                      /\ messages'[m].queue_item_id = i
                      /\ messages'[m].statut_livraison = "sent"
                      /\ messages'[m].external_message_id
                            = sms_queue'[i].external_message_id
                      /\ LogCountOf(message_logs', m) = 2
                      /\ \A k \in 1..Len(message_logs') :
                            message_logs'[k].message_id = m
                               => message_logs'[k].attempt_number \in {1, 2}]_vars

\* C20: at most one Message row exists per queue item, however many times
\* the item is dispatched.
C20_OneMessagePerQueueItem ==
    \A m, n \in DOMAIN messages :
        messages[m].queue_item_id = messages[n].queue_item_id => m = n

\* C21: reset_for_retry succeeds only on an item whose status is failed: it
\* then sets status = pending, clears next_retry_at and error_message and
\* leaves attempts (and every other field) unchanged; on an item in any other
\* status, or on a missing id, it returns false and changes nothing.
C21_ResetContract ==
    [][\A i \in 1..next_id :
          ResetForRetry(i) =>
             IF i \in Ids /\ sms_queue[i].status = "failed"
             THEN /\ reset_for_retry_result(sms_queue, i) = TRUE
                  /\ sms_queue' = [sms_queue EXCEPT ![i] =
                        [@ EXCEPT !.status = "pending",
                                  !.next_retry_at = NULL,
                                  !.error_message = None]]
                  /\ sms_queue'[i].attempts = sms_queue[i].attempts
             ELSE /\ reset_for_retry_result(sms_queue, i) = FALSE
                  /\ sms_queue' = sms_queue]_vars

\* A failed item that had a retry scheduled has been reset: it is pending
\* again with its attempts kept and nothing left of the failure.
C21_Witness ==
    \E i \in Ids :
        /\ sms_queue[i].status = "pending"
        /\ sms_queue[i].attempts = 2
        /\ sms_queue[i].next_retry_at = NULL
        /\ sms_queue[i].error_message = None

\* C22: cleanup never deletes a queue item that is pending or processing, nor
\* one whose processed_at is NULL: every row it deletes is sent, failed or
\* cancelled with processed_at earlier than now - days; the rows it keeps
\* are unchanged.
C22_CleanupDeletesOnlyOldTerminal ==
    [][\A days_to_keep \in KeepDays :
          CleanupOldRecords(days_to_keep) =>
             /\ \A i \in Ids \ DOMAIN sms_queue' :
                   /\ sms_queue[i].status \in Terminal
                   /\ sms_queue[i].processed_at # NULL
                   /\ sms_queue[i].processed_at < now - days_to_keep * DayMinutes
             /\ \A i \in DOMAIN sms_queue' : i \in Ids /\ sms_queue'[i] = sms_queue[i]]_vars

\* cleanup has deleted the one row that was old enough and reported it.
C22_Witness ==
    /\ response.code = "deleted"
    /\ response.body = 1
    /\ \E i \in 1..(next_id - 1) : i \notin Ids

\* C23: the cleanup preview changes nothing, and the total it returns equals
\* the number of rows that cleanup, called for the same days on the same
\* state, deletes and reports.
C23_PreviewMatchesCleanup ==
    [][\A days \in EndpointDays :
          /\ TriggerCleanup(days, TRUE) => UNCHANGED <<queueVars, logVars>>
          /\ TriggerCleanup(days, FALSE) =>
                /\ response'.code = "200"
                /\ response'.body = get_cleanup_preview(sms_queue, days, now).total_records
                /\ Cardinality(Ids \ DOMAIN sms_queue')
                      = get_cleanup_preview(sms_queue, days, now).total_records]_vars

\* C24: a lease returns at most BatchLimit rows, taken in priority and
\* created_at order so that no eligible row left unleased sorts before a
\* returned one, and every returned row is in status processing with
\* last_attempt_at equal to the time of the lease.
C24_LeaseContract ==
    [][\A w \in Workers : MarkProcessing(w) =>
          /\ Cardinality(wheld'[w]) <= BatchLimit
          /\ \A i \in wheld'[w] :
                /\ sms_queue'[i].status = "processing"
                /\ sms_queue'[i].last_attempt_at = now
          /\ \A i \in wheld'[w] : \A j \in Ids \ wheld'[w] :
                Eligible(sms_queue[j], now) => ~Before(sms_queue, j, i)]_vars

\* C25: add_to_queue fails with a validation error (ValueError) and persists
\* no row when the contact is missing, its phone number does not normalize,
\* the campaign is missing or not active or scheduled, priority is outside
\* 0..10 or max_attempts is outside 1..10; otherwise it creates exactly one
\* row with status pending, attempts 0 and scheduled_at the given instant or
\* now.
C25_SubmitContract ==
    [][\A campaign_id \in 1..3, contact_id \in 1..3, scheduled_at \in {NULL, now + 1},
          priority \in RequestPriorities, max_attempts \in RequestMaxAttempts :
          SubmitRequest(campaign_id, contact_id, scheduled_at, priority, max_attempts) =>
             IF \/ contact_id \notin DOMAIN Contacts
                \/ Contacts[contact_id] \notin ValidPhones
                \/ campaign_id \notin DOMAIN Campaigns
                \/ Campaigns[campaign_id] \notin {"active", "scheduled"}
                \/ priority \notin 0..10
                \/ max_attempts \notin 1..10
             THEN response'.code = "ValueError" /\ sms_queue' = sms_queue
             ELSE /\ response'.code = "created"
                  /\ DOMAIN sms_queue' = Ids \cup {next_id}
                  /\ next_id \notin Ids
                  /\ \A i \in Ids : sms_queue'[i] = sms_queue[i]
                  /\ sms_queue'[next_id].status = "pending"
                  /\ sms_queue'[next_id].attempts = 0
                  /\ sms_queue'[next_id].scheduled_at =
                        (IF scheduled_at = NULL THEN now ELSE scheduled_at)]_vars

\* The mapping of provider statuses C26 states.
StatusTaxonomy(provider_status) ==
    IF provider_status \in {"queued", "sending", "sent"} THEN "sent"
    ELSE IF provider_status \in {"delivered", "read"} THEN "delivered"
    ELSE IF provider_status \in {"failed", "undelivered"} THEN "failed"
    ELSE provider_status

\* C26: wherever a provider status is mapped (the dispatcher's send result,
\* the receipt and poller update) the internal status is the same function
\* of it: queued, sending, sent -> sent; delivered, read -> delivered;
\* failed, undelivered -> failed; any other string unchanged.  Every log row
\* that records a provider status carries the status that function gives.
C26_StatusMappedAlike ==
    \A k \in 1..Len(message_logs) :
        message_logs[k].provider_status # None =>
            message_logs[k].status = StatusTaxonomy(message_logs[k].provider_status)

\* A log row written for a receipt or a poll, not by the dispatcher.
ReceiptRequest(req) == req.provider_status # None /\ req.queue_item_id = NULL

\* C27: update_delivery_status for an external id that matches no Message
\* returns false, appends no log row and changes no Message (and leaves no
\* write pending); for an external id that matches a Message it returns true
\* and appends exactly one log row, to that Message, leaving the other
\* Messages and the earlier log rows as they were.
C27_UpdateDeliveryStatusContract ==
    [][/\ \A h \in Handlers : \A ext \in {"SM0", "SM1", "SM2", "SM3"} :
          \A ps \in ProviderStatuses :
             UpdateDeliveryStatus(h, ext, ps) =>
                /\ UNCHANGED logVars
                /\ IF \A m \in DOMAIN messages : messages[m].external_message_id # ext
                   THEN /\ ~update_delivery_status_result(messages, ext)
                        /\ UNCHANGED handlerVars
                   ELSE /\ update_delivery_status_result(messages, ext)
                        /\ hpc'[h] = "counted"
                        /\ ReceiptRequest(hreq'[h])
                        /\ hreq'[h].message \in DOMAIN messages
                        /\ messages[hreq'[h].message].external_message_id = ext
       /\ \A h \in Handlers :
             LogCommit(h) /\ ReceiptRequest(hreq[h]) =>
                /\ Len(message_logs') = Len(message_logs) + 1
                /\ SubSeq(message_logs', 1, Len(message_logs)) = message_logs
                /\ message_logs'[Len(message_logs')].message_id = hreq[h].message
                /\ DOMAIN messages' = DOMAIN messages
                /\ \A m \in DOMAIN messages \ {hreq[h].message} :
                      messages'[m] = messages[m]]_vars

\* A poll result has been logged for a Message that carries an external id.
C27_Witness ==
    \E k \in 1..Len(message_logs) :
        /\ message_logs[k].provider_status = "sent"
        /\ message_logs[k].queue_item_id = NULL
        /\ messages[message_logs[k].message_id].external_message_id # None

\* C28: POST /webhooks/sms/delivery answers 400 when the external id or the
\* status is missing from the payload and 200 otherwise, whether or not a
\* Message with that external id exists; a receipt for an unknown external
\* id changes no Message and no log row and leaves no write pending.
C28_DeliveryWebhookAnswers ==
    [][\A h \in Handlers : \A payload \in Payloads :
          SmsDeliveryWebhook(h, payload) =>
             LET sid == IF payload.MessageSid # None
                        THEN payload.MessageSid ELSE payload.SmsSid
                 st  == IF payload.MessageStatus # None
                        THEN payload.MessageStatus ELSE payload.SmsStatus
             IN IF sid = None \/ st = None
                THEN response'.code = "400" /\ UNCHANGED <<logVars, handlerVars>>
                ELSE /\ response'.code = "200"
                     /\ (\A m \in DOMAIN messages :
                            messages[m].external_message_id # sid)
                        => UNCHANGED <<logVars, handlerVars>>]_vars

\* 200 has been answered while a Message exists, no receipt has ever been
\* logged and none is being written: the receipt named an unknown id.
C28_Witness ==
    /\ response.code = "200"
    /\ Len(messages) >= 1
    /\ \A h \in Handlers : hpc[h] = "idle"
    /\ \A k \in 1..Len(message_logs) : message_logs[k].provider_status = None

\* C29: POST /webhooks/sms/status/{message_id} answers 400 when the status
\* is missing; otherwise 200 when a Message with that internal id exists,
\* applying the update to that Message, and 404 when none exists.
C29_StatusEndpointKeyedByInternalId ==
    [][\A h \in Handlers : \A message_id \in 1..(MaxMessages + 1) :
          \A payload \in Payloads :
             MessageStatusWebhook(h, message_id, payload) =>
                IF payload.MessageStatus = None /\ payload.SmsStatus = None
                THEN response'.code = "400"
                ELSE IF message_id \in DOMAIN messages
                THEN /\ response'.code = "200"
                     /\ hpc'[h] = "counted"
                     /\ hreq'[h].message = message_id
                ELSE response'.code = "404"]_vars

\* C30: mark_sent is idempotent: called a second time on the same row with
\* the same external id it leaves status, external_message_id, processed_at
\* and error_message as the first call set them.
C30_MarkSentIdempotent ==
    [][\A w \in Workers : \A i \in 1..MaxItems : \A ext \in ExternalIds :
          (/\ MarkSent(w, i, ext)
           /\ sms_queue[i].status = "sent"
           /\ sms_queue[i].external_message_id = ext)
          => /\ sms_queue'[i].status = sms_queue[i].status
             /\ sms_queue'[i].external_message_id = sms_queue[i].external_message_id
             /\ sms_queue'[i].processed_at = sms_queue[i].processed_at
             /\ sms_queue'[i].error_message = sms_queue[i].error_message]_vars

\* Terminal delivery statuses of a Message.
MessageTerminal == {"delivered", "failed", "bounced"}

\* C31: a Message whose statut_livraison has reached delivered, failed or
\* bounced never goes back to a non-terminal status, whatever event is
\* logged afterwards.
C31_MessageTerminalNeverReverts ==
    [][\A m \in DOMAIN messages :
          messages[m].statut_livraison \in MessageTerminal =>
              /\ m \in DOMAIN messages'
              /\ messages'[m].statut_livraison \in MessageTerminal]_vars

\* The instant a terminal row became terminal: mark_sent and cancel_message
\* stamp processed_at, mark_failed stamps last_attempt_at.
BecameTerminalAt(row) ==
    IF row.processed_at # NULL THEN row.processed_at ELSE row.last_attempt_at

\* The rows that became sent, failed or cancelled more than days ago.
TerminalSince(days) ==
    {i \in Ids : /\ sms_queue[i].status \in Terminal
                 /\ BecameTerminalAt(sms_queue[i]) # NULL
                 /\ BecameTerminalAt(sms_queue[i]) < now - days * DayMinutes}

\* C32: every queue row that became sent, failed or cancelled more than
\* days before the call is deleted by cleanup_old_records(days) and counted
\* by get_cleanup_preview(days), rows failed by mark_failed included.
C32_CleanupTakesEveryOldTerminal ==
    [][/\ \A days_to_keep \in KeepDays :
             CleanupOldRecords(days_to_keep) =>
                \A i \in TerminalSince(days_to_keep) : i \notin DOMAIN sms_queue'
       /\ \A days \in EndpointDays :
             TriggerCleanup(days, TRUE) =>
                response'.body = Cardinality(TerminalSince(days))]_vars

\* C33: in every reachable state every row with status pending and
\* attempts > 0 has next_retry_at set and not earlier than last_attempt_at.
C33_PendingRetryHasBackoff ==
    \A i \in Ids :
        sms_queue[i].status = "pending" /\ sms_queue[i].attempts > 0 =>
            /\ sms_queue[i].next_retry_at # NULL
            /\ sms_queue[i].next_retry_at >= sms_queue[i].last_attempt_at

\* C33 as the code has it: a pending row with attempts > 0 either has
\* next_retry_at cleared (reset_for_retry put it back in the queue) or has
\* next_retry_at not earlier than last_attempt_at.
C33_PendingRetryBackoffOrReset ==
    \A i \in Ids :
        sms_queue[i].status = "pending" /\ sms_queue[i].attempts > 0 =>
            \/ sms_queue[i].next_retry_at = NULL
            \/ /\ sms_queue[i].last_attempt_at # NULL
               /\ sms_queue[i].next_retry_at >= sms_queue[i].last_attempt_at

\* A row that mark_failed sent back to pending with a retry time.
C33_Witness ==
    \E i \in Ids :
        /\ sms_queue[i].status = "pending"
        /\ sms_queue[i].attempts > 0
        /\ sms_queue[i].next_retry_at # NULL

\* C34: mark_processing returns only the rows it moved from pending to
\* processing; a row another worker already leased, or one cancelled after
\* it was selected, is not in the returned list.
C34_ReturnsOnlyMovedRows ==
    [][\A w \in Workers : MarkProcessing(w) =>
          \A i \in wheld'[w] :
              /\ sms_queue[i].status = "pending"
              /\ sms_queue'[i].status = "processing"]_vars

\* C38: the UPDATE of mark_processing changes only rows whose status is
\* pending at that moment: a row that is processing, sent, failed or
\* cancelled is left exactly as it was (not set to processing, its
\* last_attempt_at not re-stamped), and a pending row among the ids passed
\* becomes processing with last_attempt_at = now.
C38_LeaseUpdatesOnlyPending ==
    [][\A w \in Workers : MarkProcessing(w) =>
          /\ DOMAIN sms_queue' = Ids
          /\ \A i \in Ids :
                IF sms_queue[i].status = "pending" /\ i \in Range(wsel[w])
                THEN sms_queue'[i] = [sms_queue[i] EXCEPT !.status = "processing",
                                                          !.last_attempt_at = now]
                ELSE sms_queue'[i] = sms_queue[i]]_vars

\* A worker ran mark_processing on a row that was no longer pending: it
\* holds a row that is cancelled and was never stamped, or a row that a
\* second worker holds too.
C38_Witness ==
    \E w \in Workers : \E i \in wheld[w] :
        /\ i \in Ids
        /\ \/ sms_queue[i].status = "cancelled" /\ sms_queue[i].last_attempt_at = NULL
           \/ \E v \in Workers \ {w} : i \in wheld[v]

\* C35: an event logged with no external id, no error message or no cost
\* leaves the Message's stored external_message_id, error_message or cost
\* as it was, while statut_livraison, delivery_attempts and updated_at take
\* the event's status, the attempt number and the time of the write.
C35_BlankEventPreservesFields ==
    [][\A h \in Handlers : LogCommit(h) =>
          LET m == hreq[h].message
          IN /\ hreq[h].external_message_id = None =>
                  messages'[m].external_message_id = messages[m].external_message_id
             /\ hreq[h].error_message = None =>
                  messages'[m].error_message = messages[m].error_message
             /\ hreq[h].cost = NULL => messages'[m].cost = messages[m].cost
             /\ messages'[m].statut_livraison = hreq[h].status
             /\ messages'[m].delivery_attempts = hcount[h]
             /\ messages'[m].updated_at = now]_vars

\* A Message that holds an external id, an error message and a cost, and
\* whose newest log row is a blank event.
C35_Witness ==
    \E k \in 1..Len(message_logs) :
        LET m == message_logs[k].message_id
        IN /\ \A j \in (k + 1)..Len(message_logs) : message_logs[j].message_id # m
           /\ k > 1
           /\ message_logs[k].external_message_id = None
           /\ message_logs[k].error_message = None
           /\ message_logs[k].cost = NULL
           /\ messages[m].external_message_id # None
           /\ messages[m].error_message # None
           /\ messages[m].cost # NULL

\* The log rows of Message m whose status is delivered, failed or bounced.
TerminalRows(m) ==
    {k \in 1..Len(message_logs) : /\ message_logs[k].message_id = m
                                  /\ message_logs[k].status \in MessageTerminal}

\* C40: with log_message_event calls that do not overlap, a Message's
\* final_status is set exactly when one of its log rows has status
\* delivered, failed or bounced, and then equals the status of the newest
\* such row; a final_status that is set is never cleared.
C40_FinalStatusFollowsLog ==
    /\ [](\A m \in DOMAIN messages :
             /\ messages[m].final_status # None <=> TerminalRows(m) # {}
             /\ TerminalRows(m) # {} =>
                  \E k \in TerminalRows(m) :
                      /\ \A j \in TerminalRows(m) : j <= k
                      /\ messages[m].final_status = message_logs[k].status)
    /\ [][\A m \in DOMAIN messages :
             messages[m].final_status # None =>
                 m \in DOMAIN messages' /\ messages'[m].final_status # None]_vars

\* A Message with a delivered row followed by a failed row, final_status
\* failed.
C40_Witness ==
    \E m \in DOMAIN messages : \E j \in TerminalRows(m) : \E k \in TerminalRows(m) :
        /\ j < k
        /\ message_logs[j].status = "delivered"
        /\ message_logs[k].status = "failed"
        /\ messages[m].final_status = "failed"

\* C37: the log of a Message is append-only.  A step that is not retention
\* cleanup keeps every existing row of message_logs as it is, in place, and
\* at most adds rows; under every step, cleanup included, the number of log
\* rows of each Message never decreases.
C37_LogAppendOnly ==
    [][/\ \A m \in 1..Len(messages) :
             LogCountOf(message_logs', m) >= LogCountOf(message_logs, m)
       /\ (\E days_to_keep \in KeepDays : CleanupOldRecords(days_to_keep))
          \/ /\ Len(message_logs') >= Len(message_logs)
             /\ SubSeq(message_logs', 1, Len(message_logs)) = message_logs]_vars

\* Several rows have been logged and retention cleanup has deleted the
\* queue row they pointed to.
C37_Witness ==
    /\ Len(message_logs) >= 3
    /\ Ids = {}
    /\ \A k \in 1..Len(message_logs) : message_logs[k].queue_item_id = NULL

PollDue(status_response) ==
    {m \in DOMAIN messages : /\ messages[m].statut_livraison = "sent"
                             /\ messages[m].date_envoi >= now - DayMinutes
                             /\ messages[m].external_message_id # None
                             /\ status_response # messages[m].statut_livraison}

====
